---- MODULE Spec2Model ----
(***************************************************************************)
(* Model of src/jiwa_relapse_predictor.py: the JiwaRelapsePredictor object *)
(* (its weight table), the PatientSnapshot it is called with, and its four *)
(* public methods.                                                         *)
(*                                                                         *)
(* Numbers.  Python floats are modelled in fixed point.                    *)
(*   - the snapshot fields the source writes with decimals (seconds,       *)
(*     valence, disorganization, hours, ratios) are integers counting      *)
(*     hundredths: 0.78 is 78, 7.0 is 700;                                 *)
(*   - the snapshot fields the source writes as whole numbers (words per   *)
(*     minute, steps, messages) are integers counting units;               *)
(*   - every computed value (features, probabilities, day counts) is an    *)
(*     integer counting 1/Res: 1.0 is Res.  A float division a / b is      *)
(*     floor(a * Res / b);                                                 *)
(*   - the weights are integers counting tenths (1.1 is 11), so a score is *)
(*     an integer counting 1/(10 * Res);                                   *)
(*   - the two false-alarm rates are integers counting hundredths.         *)
(* A Python exception is the value Raise(name); a normal return is Ok(v).  *)
(***************************************************************************)
EXTENDS Integers, FiniteSets, Sequences, TLC

\* Resolution of computed values: 1.0 is Res.
Res == 10000

\* Magnitude of the out-of-domain snapshot values that are tried.
Big == 100000

\* Number of terms after the first in the series used for exp.
ExpTerms == 8

\* Number of method calls made on the one predictor.
MaxCalls == 3

Abs(x) == IF x < 0 THEN -x ELSE x
Max(a, b) == IF a >= b THEN a ELSE b
Min(a, b) == IF a <= b THEN a ELSE b

\* n whole units in hundredths (the float literal n.0 next to a decimal field).
Units(n) == 100 * n

\* The float literal h/100 as a computed value (0.08 is Hundredths(8)).
Hundredths(h) == (h * Res) \div 100

Ok(v) == [err |-> "none", val |-> v]
Raise(e) == [err |-> e, val |-> 0]

\* Python's float division a / b.
Div(a, b) == IF b = 0 THEN Raise("ZeroDivisionError") ELSE Ok((a * Res) \div b)

FeatureNames ==
  { "speech_rate_shift", "pause_change", "emotion_valence_drop",
    "language_disorganization_rise", "sleep_deviation", "sleep_irregularity",
    "activity_shift", "circadian_disruption", "medication_nonadherence",
    "digital_withdrawal" }

\* self.weights as __init__ builds it, in tenths.
InitWeights ==
  [ speech_rate_shift |-> 11,
    pause_change |-> 6,
    emotion_valence_drop |-> 12,
    language_disorganization_rise |-> 14,
    sleep_deviation |-> 11,
    sleep_irregularity |-> 9,
    activity_shift |-> 7,
    circadian_disruption |-> 10,
    medication_nonadherence |-> 15,
    digital_withdrawal |-> 8 ]

\* _bounded with the upper clamp forgotten.
_bounded_without_high(value, low, high) == Max(low, value)

\* _bounded(value, low, high)
_bounded(value, low, high) == Max(low, Min(high, value))

\* _bounded(value) with the defaults low = 0.0, high = 1.0, applied to the
\* outcome of a call that may have raised.
Bounded01(m) == IF m.err # "none" THEN m ELSE Ok(_bounded(m.val, 0, Res))

\* _relative_change with the zero-baseline case forgotten.
_relative_change_unguarded(current, baseline) ==
  Div(Abs(current - baseline), Abs(baseline))

\* _relative_change(current, baseline)
_relative_change(current, baseline) ==
  IF baseline = 0 THEN Ok(0) ELSE Div(Abs(current - baseline), Abs(baseline))

\* The ten bounded features of extract_10_features, before the dict is built.
FeatureCalls(p) ==
  [ speech_rate_shift |->
      Bounded01(_relative_change(p.current_speech_rate_wpm, p.baseline_speech_rate_wpm)),
    pause_change |->
      Bounded01(_relative_change(p.current_pause_seconds, p.baseline_pause_seconds)),
    emotion_valence_drop |->
      Bounded01(Div(Max(0, p.baseline_emotion_valence - p.current_emotion_valence), Units(2))),
    language_disorganization_rise |->
      Bounded01(Div(Max(0, p.current_disorganization - p.baseline_disorganization), Units(1))),
    sleep_deviation |->
      Bounded01(Div(Abs(p.current_sleep_hours - p.baseline_sleep_hours), Units(4))),
    sleep_irregularity |->
      Bounded01(Div(p.sleep_variability_hours, Units(3))),
    activity_shift |->
      Bounded01(_relative_change(p.current_activity_steps, p.baseline_activity_steps)),
    circadian_disruption |->
      Bounded01(Div(Abs(p.circadian_shift_hours), Units(4))),
    medication_nonadherence |->
      Bounded01(Div(Units(1) - p.medication_adherence_ratio, Units(1))),
    digital_withdrawal |->
      Bounded01(Div(Max(0, p.baseline_daily_messages - p.current_daily_messages),
                    Max(1, p.baseline_daily_messages))) ]

\* extract_10_features(p): the dict of the ten features, or the exception one
\* of the ten computations raised.
extract_10_features(p) ==
  LET c == FeatureCalls(p)
      bad == { k \in DOMAIN c : c[k].err # "none" }
  IN IF bad # {}
       THEN Raise((c[CHOOSE k \in bad : TRUE]).err)
       ELSE Ok([k \in DOMAIN c |-> c[k].val])

\* sum(features[k] * self.weights[k] for k in keys), in 1/(10 * Res).
RECURSIVE WeightedSum(_, _, _)
WeightedSum(keys, features, w) ==
  IF keys = {} THEN 0
  ELSE LET k == CHOOSE x \in keys : TRUE
       IN features[k] * w[k] + WeightedSum(keys \ {k}, features, w)

\* The series 1 + y + y^2/2! + ... + y^n/n! for exp(y), y >= 0 in 1/Res.
RECURSIVE ExpSeries(_, _, _)
ExpSeries(y, k, term) ==
  IF k > ExpTerms THEN 0
  ELSE LET next == (term * y) \div (k * Res)
       IN next + ExpSeries(y, k + 1, next)

Square(r) == (r * r) \div Res

\* math.exp(-x) for x >= 0 in 1/(10 * Res); the result is in 1/Res.
\* exp(-x) = (1 / exp(x/8))^8: the series is summed for x/8 and the
\* reciprocal squared three times.  Within 5/Res of the float on the range of
\* calibrated scores, and non-increasing in x.
ExpNeg(x) ==
  LET y == x \div 80
      e == Res + ExpSeries(y, 1, Res)
  IN Square(Square(Square((Res * Res) \div e)))

\* The logistic with the sign of the exponent lost: 1 / (1 + exp(calibrated)).
Logistic_sign_lost(calibrated) ==
  IF calibrated >= 0
    THEN (Res * ExpNeg(calibrated)) \div (Res + ExpNeg(calibrated))
    ELSE (Res * Res) \div (Res + ExpNeg(-calibrated))

\* 1 / (1 + exp(-calibrated)), calibrated in 1/(10 * Res).  For a negative
\* argument the same quotient is written exp(c) / (1 + exp(c)).
Logistic(calibrated) ==
  IF calibrated >= 0
    THEN (Res * Res) \div (Res + ExpNeg(calibrated))
    ELSE (Res * ExpNeg(-calibrated)) \div (Res + ExpNeg(-calibrated))

\* relapse_probability_6_12_months reading features.get(k, 0.0): a missing
\* key counts as 0 and nothing is raised.
relapse_probability_with_default(w, features) ==
  LET g == [k \in DOMAIN w |-> IF k \in DOMAIN features THEN features[k] ELSE 0]
      score == WeightedSum(DOMAIN w, g, w)
      calibrated == score - 35 * Res
  IN Ok(Logistic(calibrated))

\* relapse_probability_6_12_months with the operands of the centering
\* swapped: calibrated = 3.5 - score.
relapse_probability_offset_swapped(w, features) ==
  IF \E k \in DOMAIN w : k \notin DOMAIN features
    THEN Raise("KeyError")
    ELSE LET score == WeightedSum(DOMAIN w, features, w)
             calibrated == 35 * Res - score
         IN Ok(Logistic(calibrated))

\* relapse_probability_6_12_months(features) on a predictor whose weight
\* table is w.  features[k] raises KeyError for a k the dict does not have.
relapse_probability_6_12_months(w, features) ==
  IF \E k \in DOMAIN w : k \notin DOMAIN features
    THEN Raise("KeyError")
    ELSE LET score == WeightedSum(DOMAIN w, features, w)
             calibrated == score - 35 * Res
         IN Ok(Logistic(calibrated))

\* OutcomesFor with the adherence forecast returned unclamped.
OutcomesFor_adherence_unclamped(p, features, relapse_risk) ==
  [ relapse_risk_6_12m |-> relapse_risk,
    readmission_risk |->
      _bounded((relapse_risk * 72) \div 100 + Hundredths(8), 0, Res),
    early_intervention_window_days |->
      Max(3 * Res, 60 * (Res - relapse_risk)),
    predicted_medication_adherence_3m |->
      Hundredths(p.medication_adherence_ratio)
        - (25 * relapse_risk) \div 100
        - (15 * Hundredths(p.missed_followup_ratio)) \div 100,
    estimated_false_alarm_rate |->
      IF relapse_risk * 100 > 55 * Res THEN 18 ELSE 10,
    features |-> features ]

\* OutcomesFor with the threshold test written relapse_risk >= 0.55.
OutcomesFor_threshold_inclusive(p, features, relapse_risk) ==
  [ relapse_risk_6_12m |-> relapse_risk,
    readmission_risk |->
      _bounded((relapse_risk * 72) \div 100 + Hundredths(8), 0, Res),
    early_intervention_window_days |->
      Max(3 * Res, 60 * (Res - relapse_risk)),
    predicted_medication_adherence_3m |->
      _bounded(Hundredths(p.medication_adherence_ratio)
                 - (25 * relapse_risk) \div 100
                 - (15 * Hundredths(p.missed_followup_ratio)) \div 100,
               0, Res),
    estimated_false_alarm_rate |->
      IF relapse_risk * 100 >= 55 * Res THEN 18 ELSE 10,
    features |-> features ]

\* The body of estimate_outcomes after relapse_risk is known.
OutcomesFor(p, features, relapse_risk) ==
  [ relapse_risk_6_12m |-> relapse_risk,
    readmission_risk |->
      _bounded((relapse_risk * 72) \div 100 + Hundredths(8), 0, Res),
    early_intervention_window_days |->
      Max(3 * Res, 60 * (Res - relapse_risk)),
    predicted_medication_adherence_3m |->
      _bounded(Hundredths(p.medication_adherence_ratio)
                 - (25 * relapse_risk) \div 100
                 - (15 * Hundredths(p.missed_followup_ratio)) \div 100,
               0, Res),
    estimated_false_alarm_rate |->
      IF relapse_risk * 100 > 55 * Res THEN 18 ELSE 10,
    features |-> features ]

\* estimate_outcomes(p) on a predictor whose weight table is w.
estimate_outcomes(w, p) ==
  LET f == extract_10_features(p)
  IN IF f.err # "none" THEN f
     ELSE LET r == relapse_probability_6_12_months(w, f.val)
          IN IF r.err # "none" THEN r
             ELSE Ok(OutcomesFor(p, f.val, r.val))

\* ComparisonFor with the relapse delta subtracted instead of added.
ComparisonFor_delta_subtracted(ai) ==
  [ ai_relapse_risk_6_12m |-> ai.relapse_risk_6_12m,
    routine_relapse_risk_6_12m |->
      _bounded(ai.relapse_risk_6_12m - Hundredths(8), 0, Res),
    ai_readmission_risk |-> ai.readmission_risk,
    routine_readmission_risk |->
      _bounded(ai.readmission_risk + Hundredths(12), 0, Res),
    ai_early_intervention_window_days |-> ai.early_intervention_window_days,
    routine_early_intervention_window_days |->
      Max(1 * Res, ai.early_intervention_window_days - 14 * Res),
    ai_estimated_false_alarm_rate |-> ai.estimated_false_alarm_rate ]

\* ComparisonFor with the one-day floor of the routine window forgotten.
ComparisonFor_without_floor(ai) ==
  [ ai_relapse_risk_6_12m |-> ai.relapse_risk_6_12m,
    routine_relapse_risk_6_12m |->
      _bounded(ai.relapse_risk_6_12m + Hundredths(8), 0, Res),
    ai_readmission_risk |-> ai.readmission_risk,
    routine_readmission_risk |->
      _bounded(ai.readmission_risk + Hundredths(12), 0, Res),
    ai_early_intervention_window_days |-> ai.early_intervention_window_days,
    routine_early_intervention_window_days |->
      ai.early_intervention_window_days - 14 * Res,
    ai_estimated_false_alarm_rate |-> ai.estimated_false_alarm_rate ]

\* The body of compare_with_routine_followup after ai is known.
ComparisonFor(ai) ==
  [ ai_relapse_risk_6_12m |-> ai.relapse_risk_6_12m,
    routine_relapse_risk_6_12m |->
      _bounded(ai.relapse_risk_6_12m + Hundredths(8), 0, Res),
    ai_readmission_risk |-> ai.readmission_risk,
    routine_readmission_risk |->
      _bounded(ai.readmission_risk + Hundredths(12), 0, Res),
    ai_early_intervention_window_days |-> ai.early_intervention_window_days,
    routine_early_intervention_window_days |->
      Max(1 * Res, ai.early_intervention_window_days - 14 * Res),
    ai_estimated_false_alarm_rate |-> ai.estimated_false_alarm_rate ]

\* compare_with_routine_followup(p) on a predictor whose weight table is w.
compare_with_routine_followup(w, p) ==
  LET ai == estimate_outcomes(w, p)
  IN IF ai.err # "none" THEN ai ELSE Ok(ComparisonFor(ai.val))

\* ---------------------------------------------------------------- inputs

\* The snapshot demo() builds.
DemoSnapshot ==
  [ baseline_speech_rate_wpm |-> 120, current_speech_rate_wpm |-> 165,
    baseline_pause_seconds |-> 120, current_pause_seconds |-> 50,
    baseline_emotion_valence |-> 10, current_emotion_valence |-> -40,
    baseline_disorganization |-> 22, current_disorganization |-> 55,
    baseline_sleep_hours |-> 700, current_sleep_hours |-> 450,
    sleep_variability_hours |-> 210,
    baseline_activity_steps |-> 7000, current_activity_steps |-> 3200,
    circadian_shift_hours |-> 280,
    medication_adherence_ratio |-> 78, missed_followup_ratio |-> 30,
    baseline_daily_messages |-> 35, current_daily_messages |-> 12 ]

\* A patient at baseline: every feature is 0.
StableSnapshot ==
  [ baseline_speech_rate_wpm |-> 120, current_speech_rate_wpm |-> 120,
    baseline_pause_seconds |-> 120, current_pause_seconds |-> 120,
    baseline_emotion_valence |-> 10, current_emotion_valence |-> 10,
    baseline_disorganization |-> 22, current_disorganization |-> 22,
    baseline_sleep_hours |-> 700, current_sleep_hours |-> 700,
    sleep_variability_hours |-> 0,
    baseline_activity_steps |-> 7000, current_activity_steps |-> 7000,
    circadian_shift_hours |-> 0,
    medication_adherence_ratio |-> 100, missed_followup_ratio |-> 0,
    baseline_daily_messages |-> 35, current_daily_messages |-> 35 ]

\* A patient with every signal at or past full scale: every feature is 1.
CrisisSnapshot ==
  [ baseline_speech_rate_wpm |-> 120, current_speech_rate_wpm |-> 300,
    baseline_pause_seconds |-> 120, current_pause_seconds |-> 300,
    baseline_emotion_valence |-> 100, current_emotion_valence |-> -100,
    baseline_disorganization |-> 0, current_disorganization |-> 100,
    baseline_sleep_hours |-> 800, current_sleep_hours |-> 200,
    sleep_variability_hours |-> 400,
    baseline_activity_steps |-> 8000, current_activity_steps |-> 0,
    circadian_shift_hours |-> -500,
    medication_adherence_ratio |-> 0, missed_followup_ratio |-> 100,
    baseline_daily_messages |-> 40, current_daily_messages |-> 0 ]

BaseSnapshots == { DemoSnapshot, StableSnapshot, CrisisSnapshot }

\* The snapshot fields each feature (and the adherence forecast) reads.
FieldGroups ==
  { <<"baseline_speech_rate_wpm", "current_speech_rate_wpm">>,
    <<"baseline_pause_seconds", "current_pause_seconds">>,
    <<"baseline_emotion_valence", "current_emotion_valence">>,
    <<"baseline_disorganization", "current_disorganization">>,
    <<"baseline_sleep_hours", "current_sleep_hours">>,
    <<"sleep_variability_hours", "circadian_shift_hours">>,
    <<"baseline_activity_steps", "current_activity_steps">>,
    <<"medication_adherence_ratio", "missed_followup_ratio">>,
    <<"baseline_daily_messages", "current_daily_messages">> }

\* Field values tried: in and out of domain, both signs, zero.
FieldValues == { -Big, -50, 0, 1, 50, Big }

\* base with the two fields of group g set to x and y.
Perturb(base, g, x, y) ==
  [ f \in DOMAIN base |->
      IF f = g[1] THEN x ELSE IF f = g[2] THEN y ELSE base[f] ]

\* The snapshots the predictor is first called with: a base snapshot, or one
\* with the fields of one group replaced.
Snapshots ==
  BaseSnapshots \cup
  { Perturb(b, g, x, y) : b \in BaseSnapshots,
                          g \in FieldGroups, x \in FieldValues, y \in FieldValues }

\* A key no weight is defined for.
ExtraKey == "heart_rate_variability"

\* Feature values tried when one feature of a mapping is replaced.
FeatureValues == { 0, Res \div 2, Res }

Override(f, k, v) == [ x \in DOMAIN f |-> IF x = k THEN v ELSE f[x] ]
Without(f, k) == [ x \in DOMAIN f \ {k} |-> f[x] ]
With(f, k, v) == [ x \in DOMAIN f \cup {k} |-> IF x = k THEN v ELSE f[x] ]

\* The mappings relapse_probability_6_12_months is called with for a
\* snapshot q: its features and, for the three base snapshots, its features
\* with one value replaced, with one key removed, with a key added, or both.
FeatureInputs(q) ==
  LET f == extract_10_features(q).val
  IN IF q \notin BaseSnapshots THEN {f}
     ELSE {f}
          \cup { Override(f, k, v) : k \in FeatureNames, v \in FeatureValues }
          \cup { Without(f, k) : k \in FeatureNames }
          \cup { With(f, ExtraKey, Res) }
          \cup { With(Without(f, k), ExtraKey, Res) : k \in FeatureNames }

NoFeatures == [ x \in {} |-> 0 ]

\* ---------------------------------------------------------------- state

VARIABLES
  weights,   \* self.weights of the one predictor
  p,         \* the PatientSnapshot the methods are called with
  op,        \* the last call made
  features,  \* the argument of the last relapse_probability_6_12_months call
  result,    \* what the last call returned or raised
  calls      \* how many method calls the predictor has served

vars == <<weights, p, op, features, result, calls>>

\* JiwaRelapsePredictor() and a first snapshot.
Init ==
  /\ weights = InitWeights
  /\ p \in Snapshots
  /\ op = "__init__"
  /\ features = NoFeatures
  /\ result = Ok(0)
  /\ calls = 0

\* Another snapshot is built; the same predictor is kept.
PatientSnapshot ==
  /\ p' \in BaseSnapshots
  /\ p' # p
  /\ op' = "PatientSnapshot"
  /\ features' = NoFeatures
  /\ result' = Ok(0)
  /\ UNCHANGED <<weights, calls>>

Extract ==
  /\ calls < MaxCalls
  /\ calls' = calls + 1
  /\ op' = "extract_10_features"
  /\ features' = NoFeatures
  /\ result' = extract_10_features(p)
  /\ UNCHANGED <<weights, p>>

\* Score with the products written back into self.weights.
Score_in_place ==
  /\ calls < MaxCalls
  /\ calls' = calls + 1
  /\ \E f \in FeatureInputs(p) :
       /\ features' = f
       /\ result' = relapse_probability_6_12_months(weights, f)
       /\ weights' = [k \in DOMAIN weights |->
                       IF k \in DOMAIN f THEN (weights[k] * f[k]) \div Res
                                         ELSE weights[k]]
  /\ op' = "relapse_probability_6_12_months"
  /\ UNCHANGED p

Score ==
  /\ calls < MaxCalls
  /\ calls' = calls + 1
  /\ \E f \in FeatureInputs(p) :
       /\ features' = f
       /\ result' = relapse_probability_6_12_months(weights, f)
  /\ op' = "relapse_probability_6_12_months"
  /\ UNCHANGED <<weights, p>>

Estimate ==
  /\ calls < MaxCalls
  /\ calls' = calls + 1
  /\ op' = "estimate_outcomes"
  /\ features' = NoFeatures
  /\ result' = estimate_outcomes(weights, p)
  /\ UNCHANGED <<weights, p>>

Compare ==
  /\ calls < MaxCalls
  /\ calls' = calls + 1
  /\ op' = "compare_with_routine_followup"
  /\ features' = NoFeatures
  /\ result' = compare_with_routine_followup(weights, p)
  /\ UNCHANGED <<weights, p>>

Next == PatientSnapshot \/ Extract \/ Score \/ Estimate \/ Compare

Spec == Init /\ [][Next]_vars

\* ---------------------------------------------------------------- claims

Returned(name) == op = name /\ result.err = "none"

InUnit(v) == 0 <= v /\ v <= Res

\* C1: for every snapshot, also one with out-of-domain, negative or very
\* large fields, extract_10_features returns a mapping with exactly the ten
\* feature names and every value in [0, 1].
C1_FeaturesBounded ==
  op = "extract_10_features" =>
    /\ result.err = "none"
    /\ DOMAIN result.val = FeatureNames
    /\ Cardinality(DOMAIN result.val) = 10
    /\ \A k \in FeatureNames : InUnit(result.val[k])

\* An adherence ratio far below 0 and a raw nonadherence far above 1, stored as 1.
C1_Witness ==
  /\ Returned("extract_10_features")
  /\ p.medication_adherence_ratio = -Big
  /\ Div(Units(1) - p.medication_adherence_ratio, Units(1)).val > Res
  /\ result.val.medication_nonadherence = Res

MissingKey == \E k \in DOMAIN weights : k \notin DOMAIN features

C3_RoutineNeverBetter ==
  op = "compare_with_routine_followup" =>
    /\ result.err = "none"
    /\ result.val.routine_relapse_risk_6_12m >= result.val.ai_relapse_risk_6_12m
    /\ result.val.routine_readmission_risk >= result.val.ai_readmission_risk

\* The AI relapse risk is above 0.92, so the +0.08 is cut off at 1.
C3_Witness ==
  /\ Returned("compare_with_routine_followup")
  /\ result.val.ai_relapse_risk_6_12m + Hundredths(8) > Res
  /\ result.val.routine_relapse_risk_6_12m = Res
  /\ result.val.ai_relapse_risk_6_12m < Res

\* C4: every probability-typed outcome of estimate_outcomes and of
\* compare_with_routine_followup lies in [0, 1], also when the adherence and
\* missed-followup ratios are far outside [0, 1].
C4_ProbabilitiesBounded ==
  /\ op = "estimate_outcomes" =>
       /\ result.err = "none"
       /\ InUnit(result.val.relapse_risk_6_12m)
       /\ InUnit(result.val.readmission_risk)
       /\ InUnit(result.val.predicted_medication_adherence_3m)
       /\ 0 <= result.val.estimated_false_alarm_rate
       /\ result.val.estimated_false_alarm_rate <= 100
  /\ op = "compare_with_routine_followup" =>
       /\ result.err = "none"
       /\ InUnit(result.val.routine_relapse_risk_6_12m)
       /\ InUnit(result.val.routine_readmission_risk)

\* Adherence far above 1 and missed followups far below 0: the raw forecast
\* is far above 1 and is returned as 1.
C4_Witness ==
  /\ Returned("estimate_outcomes")
  /\ p.medication_adherence_ratio = Big
  /\ p.missed_followup_ratio = -Big
  /\ result.val.predicted_medication_adherence_3m = Res

\* C5: the intervention window of estimate_outcomes is at least 3 days; the
\* routine window of compare_with_routine_followup is max(1, ai window - 14)
\* and so at least 1 day.
C5_WindowFloors ==
  /\ op = "estimate_outcomes" =>
       /\ result.err = "none"
       /\ result.val.early_intervention_window_days >= 3 * Res
  /\ op = "compare_with_routine_followup" =>
       /\ result.err = "none"
       /\ result.val.ai_early_intervention_window_days >= 3 * Res
       /\ result.val.routine_early_intervention_window_days >= 1 * Res
       /\ result.val.routine_early_intervention_window_days =
            Max(1 * Res, result.val.ai_early_intervention_window_days - 14 * Res)

\* A risk so high that 60 * (1 - risk) is below 3: both floors apply.
C5_Witness ==
  /\ Returned("compare_with_routine_followup")
  /\ 60 * (Res - result.val.ai_relapse_risk_6_12m) < 3 * Res
  /\ result.val.ai_early_intervention_window_days = 3 * Res
  /\ result.val.routine_early_intervention_window_days = 1 * Res

\* f and g have all ten values in [0, 1], agree on nine keys, and the tenth
\* is larger in g.
RaisedInOneKey(f, g) ==
  /\ DOMAIN f = FeatureNames
  /\ DOMAIN g = FeatureNames
  /\ \A k \in FeatureNames : InUnit(f[k]) /\ InUnit(g[k])
  /\ \E k \in FeatureNames :
       /\ g[k] > f[k]
       /\ \A j \in FeatureNames \ {k} : g[j] = f[j]

\* C6: when relapse_probability_6_12_months is called with a mapping and
\* then with the same mapping with one feature raised, the second
\* probability is not smaller than the first.
C6_Monotone ==
  [][ ( /\ op = "relapse_probability_6_12_months"
        /\ op' = "relapse_probability_6_12_months"
        /\ RaisedInOneKey(features, features') )
      => ( /\ result.err = "none"
           /\ result'.err = "none"
           /\ result'.val >= result.val ) ]_vars

\* A call with one feature of the snapshot's mapping raised to 1 that returned
\* a strictly larger probability than the snapshot's own mapping gives.
C6_Witness ==
  /\ Returned("relapse_probability_6_12_months")
  /\ RaisedInOneKey(extract_10_features(p).val, features)
  /\ result.val >
       relapse_probability_6_12_months(weights, extract_10_features(p).val).val

\* C7: estimated_false_alarm_rate is 0.18 exactly when the relapse risk is
\* strictly above 0.55 and 0.10 otherwise; a relapse risk of exactly 0.55
\* yields 0.10.
C7_FalseAlarmStep ==
  op = "estimate_outcomes" =>
    /\ result.err = "none"
    /\ result.val.estimated_false_alarm_rate \in {10, 18}
    /\ result.val.estimated_false_alarm_rate = 18
         <=> result.val.relapse_risk_6_12m * 100 > 55 * Res
    /\ OutcomesFor(p, result.val.features, Hundredths(55)).estimated_false_alarm_rate
         = 10

\* A relapse risk between 0.50 and 0.55, reported with the rate 0.10.
C7_Witness ==
  /\ Returned("estimate_outcomes")
  /\ result.val.relapse_risk_6_12m * 100 > 50 * Res
  /\ result.val.relapse_risk_6_12m * 100 <= 55 * Res
  /\ result.val.estimated_false_alarm_rate = 10

\* C8: _relative_change(current, 0) is 0 and raises nothing, so the three
\* relative-change features are 0 when their baseline is 0, and
\* extract_10_features never raises ZeroDivisionError.
C8_ZeroBaseline ==
  /\ \A x \in FieldValues : _relative_change(x, 0) = Ok(0)
  /\ op = "extract_10_features" =>
       /\ result.err = "none"
       /\ p.baseline_speech_rate_wpm = 0 => result.val.speech_rate_shift = 0
       /\ p.baseline_pause_seconds = 0 => result.val.pause_change = 0
       /\ p.baseline_activity_steps = 0 => result.val.activity_shift = 0

\* A zero step baseline with a nonzero current step count.
C8_Witness ==
  /\ Returned("extract_10_features")
  /\ p.baseline_activity_steps = 0
  /\ p.current_activity_steps # 0
  /\ result.val.activity_shift = 0

\* What the last call returns on a predictor just constructed.
FreshResult ==
  CASE op = "extract_10_features" -> extract_10_features(p)
    [] op = "relapse_probability_6_12_months" ->
         relapse_probability_6_12_months(InitWeights, features)
    [] op = "estimate_outcomes" -> estimate_outcomes(InitWeights, p)
    [] op = "compare_with_routine_followup" ->
         compare_with_routine_followup(InitWeights, p)
    [] OTHER -> Ok(0)

IsCall(o) ==
  o \in { "extract_10_features", "relapse_probability_6_12_months",
          "estimate_outcomes", "compare_with_routine_followup" }

C10_DemoSensitive ==
  (op = "estimate_outcomes" /\ p = DemoSnapshot) =>
    /\ result.err = "none"
    /\ WeightedSum(FeatureNames, result.val.features, weights) > 35 * Res
    /\ result.val.relapse_risk_6_12m * 100 > 55 * Res
    /\ result.val.estimated_false_alarm_rate = 18

C10_Witness ==
  /\ Returned("estimate_outcomes")
  /\ p = DemoSnapshot
  /\ result.val.estimated_false_alarm_rate = 18

====
